---- MODULE Spec2Model ----
(***************************************************************************)
(* kubectl-topd: node usage report with label columns, client-side sort    *)
(* and concurrent per-node disk statistics.                                *)
(*                                                                         *)
(* Text is modelled as sequences of one-character strings, so that strip,  *)
(* endswith, the regular expressions and _norm are computed on characters. *)
(* Floating point values are modelled by exact rationals (numerator over a *)
(* power of ten); percentages are carried in hundredths of a percent.      *)
(***************************************************************************)
EXTENDS Integers, Sequences, FiniteSets, TLC

VARIABLES
    pc,                \* where the run (or the function under study) stands
    out,               \* the lines printed so far
    args,              \* --concurrency and --order-by
    requested_labels,  \* the -L label keys
    node_names,        \* names of the listed nodes, in listing order
    labels_by_node, capacity, usage,   \* what main keeps of the two listings
    futures,           \* the submitted disk-stat tasks, in submission order
    disk_usage,        \* name -> percentage, in insertion order
    requests,          \* stats requests issued so far, per node name
    rows, order_specs,
    rows0,             \* the rows as they were before sorting
    q, res,            \* a converter's input and outcome
    spec_str, parsed   \* parse_order_by's input and outcome

mainVars == <<out, args, node_names, labels_by_node, capacity, usage, futures,
              disk_usage, requests>>

vars == <<pc, out, args, requested_labels, node_names, labels_by_node, capacity,
          usage, futures, disk_usage, requests, rows, order_specs, rows0, q, res,
          spec_str, parsed>>

\* Value of a variable that the specification at hand does not use.
Idle == "idle"

\* Python's None.
None == "None"

(***************************************************************************)
(* Text helpers (str.strip, str.endswith, str.startswith, str.lower)       *)
(***************************************************************************)
IsSpace(c) == c \in {" ", "\n"}

RECURSIVE LStrip(_)
LStrip(s) == IF s # <<>> /\ IsSpace(Head(s)) THEN LStrip(Tail(s)) ELSE s

RECURSIVE RStrip(_)
RStrip(s) ==
    IF s # <<>> /\ IsSpace(s[Len(s)]) THEN RStrip(SubSeq(s, 1, Len(s) - 1)) ELSE s

Strip(s) == RStrip(LStrip(s))

EndsWith(s, suf) ==
    Len(s) >= Len(suf) /\ SubSeq(s, Len(s) - Len(suf) + 1, Len(s)) = suf

StartsWith(s, pre) == Len(s) >= Len(pre) /\ SubSeq(s, 1, Len(pre)) = pre

Digits == <<"0", "1", "2", "3", "4", "5", "6", "7", "8", "9">>

IsDigit(c) == \E i \in 1..Len(Digits) : Digits[i] = c

DigitVal(c) == (CHOOSE i \in 1..Len(Digits) : Digits[i] = c) - 1

RECURSIVE Pow(_, _)
Pow(b, e) == IF e = 0 THEN 1 ELSE b * Pow(b, e - 1)

(***************************************************************************)
(* float(): the literals Python accepts over the characters of the model   *)
(* (digits, one optional dot, at least one digit, surrounding blanks).     *)
(* The value is num / den.                                                 *)
(***************************************************************************)
IsFloatLiteral(s) ==
    LET t == Strip(s) IN
    /\ t # <<>>
    /\ \A i \in 1..Len(t) : IsDigit(t[i]) \/ t[i] = "."
    /\ Cardinality({i \in 1..Len(t) : t[i] = "."}) <= 1
    /\ \E i \in 1..Len(t) : IsDigit(t[i])

RECURSIVE DigitsNum(_, _)
DigitsNum(t, acc) ==
    IF t = <<>> THEN acc
    ELSE IF Head(t) = "." THEN DigitsNum(Tail(t), acc)
    ELSE DigitsNum(Tail(t), acc * 10 + DigitVal(Head(t)))

FloatNum(s) == DigitsNum(Strip(s), 0)

FloatDen(s) ==
    LET t == Strip(s)
        dots == {i \in 1..Len(t) : t[i] = "."}
    IN  IF dots = {} THEN 1 ELSE Pow(10, Len(t) - (CHOOSE i \in dots : TRUE))

\* str.isdigit()
IsAllDigits(s) == s # <<>> /\ \A i \in 1..Len(s) : IsDigit(s[i])

\* A call's outcome: a returned value, or an exception that leaves the call.
Ret(v) == [raised |-> FALSE, val |-> v]
Raise == [raised |-> TRUE, val |-> 0]

(***************************************************************************)
(* Unit converters                                                         *)
(***************************************************************************)
\* _BIN in declaration order; the multiplier is 1024^exp.
BIN == << [suf |-> <<"K", "i">>, exp |-> 1], [suf |-> <<"M", "i">>, exp |-> 2],
          [suf |-> <<"G", "i">>, exp |-> 3], [suf |-> <<"T", "i">>, exp |-> 4],
          [suf |-> <<"P", "i">>, exp |-> 5], [suf |-> <<"E", "i">>, exp |-> 6] >>

\* The suffixes the regular expression of parse_memory_to_bytes admits
\* ([kKMGTPE]?), with the power of ten _DEC gives each.
DecExp(suf) ==
    CASE suf = "k" -> 3 [] suf = "K" -> 3 [] suf = "M" -> 6 [] suf = "G" -> 9
      [] suf = "T" -> 12 [] suf = "P" -> 15 [] suf = "E" -> 18

IsDecSuffix(c) == c \in {"k", "K", "M", "G", "T", "P", "E"}

\* re.match(r"^([0-9.]+)([kKMGTPE]?)$", q): the numeric group, or <<>> for no match.
MemRegexNum(s) ==
    LET body == IF s # <<>> /\ IsDecSuffix(s[Len(s)])
                THEN SubSeq(s, 1, Len(s) - 1) ELSE s
    IN  IF body # <<>> /\ \A i \in 1..Len(body) : IsDigit(body[i]) \/ body[i] = "."
        THEN body ELSE <<>>

parse_memory_to_bytes(q0) ==
    LET s == Strip(q0)
        hits == {i \in 1..Len(BIN) : EndsWith(s, BIN[i].suf)}
    IN
    IF s = <<>> THEN Ret(0)
    ELSE IF hits # {} THEN
        LET i == CHOOSE k \in hits : \A j \in hits : k <= j
            pre == SubSeq(s, 1, Len(s) - Len(BIN[i].suf))
        IN  IF pre = <<>> THEN Ret(0)
            ELSE IF IsFloatLiteral(pre)
            THEN Ret((FloatNum(pre) * Pow(1024, BIN[i].exp)) \div FloatDen(pre))
            ELSE Raise
    ELSE IF MemRegexNum(s) # <<>> THEN
        LET num == MemRegexNum(s)
            mult == IF Len(num) < Len(s) THEN Pow(10, DecExp(s[Len(s)])) ELSE 1
        IN  IF IsFloatLiteral(num)
            THEN Ret((FloatNum(num) * mult) \div FloatDen(num))
            ELSE Raise
    ELSE IF IsAllDigits(s) THEN Ret(FloatNum(s))
    ELSE IF IsFloatLiteral(s) THEN Ret(FloatNum(s) \div FloatDen(s))
    ELSE Ret(0)

parse_cpu_to_millicores(q0) ==
    LET s == Strip(q0)
        pre == SubSeq(s, 1, Len(s) - 1)
    IN
    IF s = <<>> THEN Ret(0)
    ELSE IF EndsWith(s, <<"m">>) THEN
        IF IsFloatLiteral(pre) THEN Ret(FloatNum(pre) \div FloatDen(pre)) ELSE Raise
    ELSE IF EndsWith(s, <<"n">>) THEN
        IF pre = <<>> THEN Ret(0)
        ELSE IF IsFloatLiteral(pre)
        THEN Ret(((FloatNum(pre) * 1000) \div FloatDen(pre)) \div 1000000000)
        ELSE Raise
    ELSE IF IsFloatLiteral(s) THEN Ret((FloatNum(s) * 1000) \div FloatDen(s))
    ELSE Ret(0)

(***************************************************************************)
(* Order-by parser                                                         *)
(***************************************************************************)
UpperLetters == <<"A", "B", "C", "D", "E", "F", "G", "H", "I", "J", "K", "L", "M",
                  "N", "O", "P", "Q", "R", "S", "T", "U", "V", "W", "X", "Y", "Z">>

LowerLetters == <<"a", "b", "c", "d", "e", "f", "g", "h", "i", "j", "k", "l", "m",
                  "n", "o", "p", "q", "r", "s", "t", "u", "v", "w", "x", "y", "z">>

IsLowerLetter(c) == \E i \in 1..26 : LowerLetters[i] = c

\* str.lower() on one character
LowerChar(c) ==
    IF \E i \in 1..26 : UpperLetters[i] = c
    THEN LowerLetters[CHOOSE i \in 1..26 : UpperLetters[i] = c]
    ELSE c

Lower(s) == [i \in 1..Len(s) |-> LowerChar(s[i])]

\* re.sub(r"[^a-z0-9%]+", "", s.lower())
RECURSIVE KeepNormChars(_)
KeepNormChars(s) ==
    IF s = <<>> THEN <<>>
    ELSE IF IsLowerLetter(Head(s)) \/ IsDigit(Head(s)) \/ Head(s) = "%"
    THEN <<Head(s)>> \o KeepNormChars(Tail(s))
    ELSE KeepNormChars(Tail(s))

Norm(s) == KeepNormChars(Lower(s))

\* The entries of the _BUILTIN_COL_MAP literal, as written, top to bottom.
BuiltinDecl ==
    << <<<<"n", "a", "m", "e">>, "name">>,
       <<<<"c", "p", "u", "(", "c", "o", "r", "e", "s", ")">>, "cpu_m">>,
       <<<<"c", "p", "u", "c", "o", "r", "e", "s">>, "cpu_m">>,
       <<<<"c", "p", "u">>, "cpu_m">>,
       <<<<"c", "p", "u", "%">>, "cpu_perc">>,
       <<<<"m", "e", "m", "o", "r", "y", "(", "b", "y", "t", "e", "s", ")">>, "mem_bytes">>,
       <<<<"m", "e", "m", "o", "r", "y">>, "mem_bytes">>,
       <<<<"m", "e", "m">>, "mem_bytes">>,
       <<<<"m", "e", "m", "o", "r", "y", "%">>, "mem_perc">>,
       <<<<"m", "e", "m", "%">>, "mem_perc">>,
       <<<<"d", "i", "s", "k", " ", "u", "s", "a", "g", "e", "%">>, "disk_perc">>,
       <<<<"d", "i", "s", "k", "%">>, "disk_perc">>,
       <<<<"d", "i", "s", "k">>, "disk_perc">> >>

\* dict[k] = v on an insertion-ordered dict: an existing key keeps its place.
DictSet(d, k, v) ==
    IF \E i \in 1..Len(d) : d[i].alias = k
    THEN [i \in 1..Len(d) |-> IF d[i].alias = k THEN [alias |-> k, key |-> v] ELSE d[i]]
    ELSE Append(d, [alias |-> k, key |-> v])

RECURSIVE DictFrom(_, _)
DictFrom(pairs, d) ==
    IF pairs = <<>> THEN d
    ELSE DictFrom(Tail(pairs), DictSet(d, Norm(Head(pairs)[1]), Head(pairs)[2]))

\* _BUILTIN_COL_MAP, in iteration order
BUILTIN_COL_MAP == DictFrom(BuiltinDecl, <<>>)

\* _BUILTIN_COL_MAP.get(ncol): the key, or None
BuiltinGet(ncol) ==
    IF \E i \in 1..Len(BUILTIN_COL_MAP) : BUILTIN_COL_MAP[i].alias = ncol
    THEN BUILTIN_COL_MAP[CHOOSE i \in 1..Len(BUILTIN_COL_MAP) :
                            BUILTIN_COL_MAP[i].alias = ncol].key
    ELSE None

\* spec.split(",")
RECURSIVE Split(_, _)
Split(s, cur) ==
    IF s = <<>> THEN <<cur>>
    ELSE IF Head(s) = "," THEN <<cur>> \o Split(Tail(s), <<>>)
    ELSE Split(Tail(s), Append(cur, Head(s)))

DescSuffix == <<":", "d", "e", "s", "c">>
AscSuffix == <<":", "a", "s", "c">>

\* re.match(r"^(.*?)(?::(asc|desc))?$", item, re.IGNORECASE) on a stripped item:
\* the lazy first group takes the shortest prefix after which only an optional
\* :asc / :desc remains; "." matches no newline, so an item with a newline in
\* that prefix has no match (matched = FALSE, and m is None).
MatchItem(item) ==
    LET li == Lower(item)
        cut == IF EndsWith(li, DescSuffix) THEN Len(DescSuffix)
               ELSE IF EndsWith(li, AscSuffix) THEN Len(AscSuffix) ELSE 0
        g1 == SubSeq(item, 1, Len(item) - cut)
    IN  [matched |-> \A i \in 1..Len(g1) : g1[i] # "\n",
         col |-> g1,
         direction |-> IF cut = Len(DescSuffix) THEN "desc" ELSE "asc"]

\* The first requested label lk with _norm(lk) == ncol or lk == col, or None.
LabelHits(col, labels) ==
    {i \in 1..Len(labels) : Norm(labels[i]) = Norm(col) \/ labels[i] = col}

\* The builtin aliases related to ncol by prefix, as positions of the table.
PrefixHits(ncol) ==
    {i \in 1..Len(BUILTIN_COL_MAP) :
        \/ StartsWith(BUILTIN_COL_MAP[i].alias, ncol)
        \/ StartsWith(ncol, BUILTIN_COL_MAP[i].alias)}

Min(S) == CHOOSE x \in S : \A y \in S : x <= y
Max(S) == CHOOSE x \in S : \A y \in S : x >= y

\* for alias, builtin_key in _BUILTIN_COL_MAP.items(): ... break
PrefixPick(ncol) == Min(PrefixHits(ncol))

\* Mutant of ResolveColumn: the requested labels are tried before the builtin table.
ResolveColumn_LabelFirst(col, reverse, labels) ==
    LET ncol == Norm(col) IN
    IF LabelHits(col, labels) # {}
    THEN <<[key |-> "label", reverse |-> reverse,
            label_key |-> labels[Min(LabelHits(col, labels))]]>>
    ELSE IF BuiltinGet(ncol) # None
    THEN <<[key |-> BuiltinGet(ncol), reverse |-> reverse, label_key |-> <<>>]>>
    ELSE IF PrefixHits(ncol) # {}
    THEN <<[key |-> BUILTIN_COL_MAP[PrefixPick(ncol)].key, reverse |-> reverse,
            label_key |-> <<>>]>>
    ELSE <<>>

\* The directives one column name contributes (one, or none when it is dropped).
\* label_key is <<>> where the code has None.
ResolveColumn(col, reverse, labels) ==
    LET ncol == Norm(col) IN
    IF BuiltinGet(ncol) # None
    THEN <<[key |-> BuiltinGet(ncol), reverse |-> reverse, label_key |-> <<>>]>>
    ELSE IF LabelHits(col, labels) # {}
    THEN <<[key |-> "label", reverse |-> reverse,
            label_key |-> labels[Min(LabelHits(col, labels))]]>>
    ELSE IF PrefixHits(ncol) # {}
    THEN <<[key |-> BUILTIN_COL_MAP[PrefixPick(ncol)].key, reverse |-> reverse,
            label_key |-> <<>>]>>
    ELSE <<>>

\* The loop of parse_order_by over the split items.
RECURSIVE ParseItems(_, _, _)
ParseItems(raws, labels, orders) ==
    IF raws = <<>> THEN Ret(orders)
    ELSE LET item == Strip(Head(raws))
             m == MatchItem(item)
         IN  IF item = <<>> THEN ParseItems(Tail(raws), labels, orders)
             ELSE IF ~m.matched THEN Raise
             ELSE ParseItems(Tail(raws), labels,
                     orders \o ResolveColumn(Strip(m.col), m.direction = "desc", labels))

\* spec is a character sequence; <<>> stands for both None and "".
parse_order_by(spec, labels) ==
    IF spec = <<>> THEN Ret(<<>>) ELSE ParseItems(Split(spec, <<>>), labels, <<>>)

(***************************************************************************)
(* Row sorter                                                              *)
(***************************************************************************)
\* The characters of the model in code point order, for str comparison.
CodePoints ==
    <<"\n", " ", "%", "(", ")", ",", "-", ".">> \o Digits \o <<":">>
        \o UpperLetters \o <<"_">> \o LowerLetters

CharCode(c) == CHOOSE i \in 1..Len(CodePoints) : CodePoints[i] = c

\* a < b on str
RECURSIVE StrLess(_, _)
StrLess(a, b) ==
    IF b = <<>> THEN FALSE
    ELSE IF a = <<>> THEN TRUE
    ELSE IF Head(a) = Head(b) THEN StrLess(Tail(a), Tail(b))
    ELSE CharCode(Head(a)) < CharCode(Head(b))

\* r["labels"].get(label_key, "") or ""
LabelValue(r, lk) == IF lk \in DOMAIN r.labels THEN r.labels[lk] ELSE <<>>

\* The key function of one pass: the label lambda, or _k. A row without the
\* field (r.get(key) is None) gets -inf when ascending and +inf when descending;
\* inf is the sign of such an infinity and 0 for a value.
SortKey(r, d) ==
    IF d.key = "label"
    THEN [kind |-> "str", s |-> LabelValue(r, d.label_key), n |-> 0, inf |-> 0]
    ELSE IF d.key \notin DOMAIN r
    THEN [kind |-> "num", s |-> <<>>, n |-> 0, inf |-> IF d.reverse THEN 1 ELSE -1]
    ELSE IF d.key = "name"
    THEN [kind |-> "str", s |-> r.name, n |-> 0, inf |-> 0]
    ELSE [kind |-> "num", s |-> <<>>, n |-> r[d.key], inf |-> 0]

\* a < b on the keys of one pass (str with str, float with float)
KeyLess(a, b) ==
    IF a.kind = "str" /\ b.kind = "str" THEN StrLess(a.s, b.s)
    ELSE a.inf < b.inf \/ (a.inf = 0 /\ b.inf = 0 /\ a.n < b.n)

\* Whether x must come before y in a pass of directive d.
Precedes(x, y, d) ==
    IF d.reverse THEN KeyLess(SortKey(y, d), SortKey(x, d))
    ELSE KeyLess(SortKey(x, d), SortKey(y, d))

\* x goes after every element it does not precede: equal keys keep their order.
RECURSIVE InsertStable(_, _, _)
InsertStable(sorted, x, d) ==
    IF sorted = <<>> THEN <<x>>
    ELSE IF Precedes(x, Head(sorted), d) THEN <<x>> \o sorted
    ELSE <<Head(sorted)>> \o InsertStable(Tail(sorted), x, d)

RECURSIVE StableSort(_, _, _)
StableSort(todo, sorted, d) ==
    IF todo = <<>> THEN sorted
    ELSE StableSort(Tail(todo), InsertStable(sorted, Head(todo), d), d)

Reverse(s) == [i \in 1..Len(s) |-> s[Len(s) + 1 - i]]

\* Mutant of ListSort: reverse=True as an ascending sort followed by a reversal,
\* which turns the order of equal keys around.
ListSort_ReverseAfter(rs, d) ==
    IF d.reverse
    THEN Reverse(StableSort(rs, <<>>, [d EXCEPT !.reverse = FALSE]))
    ELSE StableSort(rs, <<>>, d)

\* rows.sort(key=..., reverse=reverse): list.sort is stable, also with reverse.
ListSort(rs, d) == StableSort(rs, <<>>, d)

\* for key, reverse, label_key in reversed(order_specs): rows.sort(...)
RECURSIVE sort_rows_in_place(_, _)
sort_rows_in_place(rs, specs) ==
    IF specs = <<>> THEN rs
    ELSE sort_rows_in_place(ListSort(rs, specs[Len(specs)]),
                            SubSeq(specs, 1, Len(specs) - 1))

(***************************************************************************)
(* Bounds                                                                  *)
(***************************************************************************)
MaxRows == 3
MaxDirectives == 2
MaxQLen == 3
MaxItems == 2
MaxNodes == 3

SeqsUpTo(S, n) == UNION {[1..k -> S] : k \in 0..n}

NodeName(i) == <<"n", Digits[i + 1]>>

(***************************************************************************)
(* SpecSort: sort_rows_in_place on bounded row lists and order specs       *)
(***************************************************************************)
ZoneKey == <<"z", "o", "n", "e">>

\* What a row of the sorter's input may hold: cpu_perc present or not, the
\* zone label present or not (an option is a sequence of at most one value).
SortAttrs ==
    [cpu : {<<>>, <<10>>, <<90>>}, zone : {<<>>, <<<<"a">>>>}]

MkRow(i, a) ==
    LET ls == IF a.zone = <<>> THEN <<>> ELSE (ZoneKey :> a.zone[1]) IN
    IF a.cpu = <<>> THEN [name |-> NodeName(i), labels |-> ls]
    ELSE [name |-> NodeName(i), cpu_perc |-> a.cpu[1], labels |-> ls]

SortDirectives ==
    {[key |-> "cpu_perc", reverse |-> rv, label_key |-> <<>>] : rv \in BOOLEAN}
    \cup {[key |-> "label", reverse |-> rv, label_key |-> ZoneKey] : rv \in BOOLEAN}

IdleRest ==
    /\ out = Idle /\ args = Idle /\ node_names = Idle /\ labels_by_node = Idle
    /\ capacity = Idle /\ usage = Idle /\ futures = Idle /\ disk_usage = Idle
    /\ requests = Idle

InitSort ==
    /\ pc = "unsorted"
    /\ \E k \in 0..MaxRows : \E a \in [1..k -> SortAttrs] :
          rows0 = [i \in 1..k |-> MkRow(i, a[i])]
    /\ rows = rows0
    /\ order_specs \in SeqsUpTo(SortDirectives, MaxDirectives)
    /\ q = Idle /\ res = Idle /\ spec_str = Idle /\ requested_labels = Idle
    /\ parsed = Idle
    /\ IdleRest

SortRows ==
    /\ pc = "unsorted"
    /\ rows' = sort_rows_in_place(rows, order_specs)
    /\ pc' = "sorted"
    /\ UNCHANGED <<mainVars, order_specs, rows0, q, res, spec_str,
                   requested_labels, parsed>>

NextSort == SortRows

SpecSort == InitSort /\ [][NextSort]_vars

(***************************************************************************)
(* SpecQty: the unit converters on every string of the bounded alphabet    *)
(***************************************************************************)
QChars == {"1", ".", "K", "i", "m", "n", "x", " "}

InitQty ==
    /\ pc = "input"
    /\ q \in SeqsUpTo(QChars, MaxQLen)
    /\ res = Idle
    /\ rows = Idle /\ rows0 = Idle /\ order_specs = Idle
    /\ spec_str = Idle /\ requested_labels = Idle /\ parsed = Idle
    /\ IdleRest

ParseMemory ==
    /\ pc = "input"
    /\ res' = parse_memory_to_bytes(q)
    /\ pc' = "memory_parsed"
    /\ UNCHANGED <<mainVars, rows, order_specs, rows0, q, spec_str,
                   requested_labels, parsed>>

ParseCpu ==
    /\ pc = "input"
    /\ res' = parse_cpu_to_millicores(q)
    /\ pc' = "cpu_parsed"
    /\ UNCHANGED <<mainVars, rows, order_specs, rows0, q, spec_str,
                   requested_labels, parsed>>

NextQty == ParseMemory \/ ParseCpu

SpecQty == InitQty /\ [][NextQty]_vars

(***************************************************************************)
(* SpecOrder: parse_order_by on comma-joined items and requested labels    *)
(***************************************************************************)
\* Column names of the inputs: exact aliases, names that normalize to one,
\* label keys, prefixes, an unknown name, the empty name, a name with a newline.
OrderCols ==
    { <<"c", "p", "u", "%">>,
      <<"C", "P", "U", " ", "(", "c", "o", "r", "e", "s", ")">>,
      <<"m", "e", "m">>,
      <<" ", "Z", "o", "n", "e">>,
      <<"m", "e", "m", "o">>,
      <<"z", "o">>,
      <<"m", "e", "m", "%", "x">>,
      <<>>,
      <<"a", "\n", "b">>,
      <<"d">> }

\* Columns that also appear with a direction suffix.
DirectedCols ==
    { <<"c", "p", "u", "%">>, <<" ", "Z", "o", "n", "e">>, <<"m", "e", "m", "o">>,
      <<"z", "o">>, <<"d">> }

OrderItems ==
    OrderCols \cup {c \o <<":", "D", "E", "S", "C">> : c \in DirectedCols}
        \cup {<<"c", "p", "u", "%", ":", "a", "s", "c">>, <<" ">>}

LabelLists ==
    { <<>>,
      <<<<"z", "o", "n", "e">>>>,
      <<<<"m", "e", "m">>, <<"m", "e", "m", "o">>>> }

RECURSIVE JoinItems(_)
JoinItems(items) ==
    IF items = <<>> THEN <<>>
    ELSE IF Len(items) = 1 THEN items[1]
    ELSE items[1] \o <<",">> \o JoinItems(Tail(items))

InitOrder ==
    /\ pc = "unparsed"
    /\ \E items \in SeqsUpTo(OrderItems, MaxItems) : spec_str = JoinItems(items)
    /\ requested_labels \in LabelLists
    /\ parsed = Idle
    /\ rows = Idle /\ rows0 = Idle /\ order_specs = Idle /\ q = Idle /\ res = Idle
    /\ IdleRest

ParseOrderBy ==
    /\ pc = "unparsed"
    /\ parsed' = parse_order_by(spec_str, requested_labels)
    /\ pc' = "parsed"
    /\ UNCHANGED <<mainVars, rows, order_specs, rows0, q, res, spec_str,
                   requested_labels>>

NextOrder == ParseOrderBy

SpecOrder == InitOrder /\ [][NextOrder]_vars

(***************************************************************************)
(* main: the cluster it talks to                                           *)
(***************************************************************************)
THRESHOLD_PERCENTAGE == 80

\* --concurrency's default
DefaultConcurrency == 16

Pick(seq, i) == seq[((i - 1) % Len(seq)) + 1]

\* The nodes of the cluster are numbered 1..MaxNodes; node i is named n<i>.
Cluster == 1..MaxNodes

\* status.capacity and usage, as the quantity strings the API serves.
CapacityCpu == <<<<"4">>, <<"2">>, <<"8">>>>
CapacityMemory == <<<<"8", "K", "i">>, <<"4", "K", "i">>, <<"1", "6", "K", "i">>>>
UsageCpu == <<<<"3", "2", "1", "6", "m">>, <<"1", "8", "0", "0", "m">>, <<"4", "0", "0", "m">>>>
UsageMemory == <<<<"4", "K", "i">>, <<"3", ".", "7", "5", "K", "i">>, <<"2", "K", "i">>>>

\* metadata.labels: the third node carries no zone label.
NodeLabels == <<(ZoneKey :> <<"a">>), (ZoneKey :> <<"b">>), <<>>>>

\* /stats/summary of a node: node.fs.usedBytes and node.fs.capacityBytes.
FsStats ==
    <<{[usedBytes |-> 85, capacityBytes |-> 100]},
      {[usedBytes |-> 50, capacityBytes |-> 100]},
      {[usedBytes |-> 90, capacityBytes |-> 100], [usedBytes |-> 0, capacityBytes |-> 0]}>>

NodeItem(i) ==
    [name |-> NodeName(i), labels |-> Pick(NodeLabels, i),
     cpu |-> Pick(CapacityCpu, i), memory |-> Pick(CapacityMemory, i)]

MetricsItem(i) ==
    [name |-> NodeName(i), cpu |-> Pick(UsageCpu, i), memory |-> Pick(UsageMemory, i)]

\* What a stats request may come back with: a request error or timeout, a body
\* without node.fs (fs = <<>>), or the node's filesystem figures.
StatsResponses(i) ==
    {[kind |-> "error", fs |-> <<>>], [kind |-> "json", fs |-> <<>>]}
        \cup {[kind |-> "json", fs |-> <<f>>] : f \in Pick(FsStats, i)}

\* A node listing: the selected nodes, in the order the API returns them.
Listings ==
    {l \in SeqsUpTo(Cluster, MaxNodes) : \A i, j \in 1..Len(l) : i # j => l[i] # l[j]}

\* The nodes the metrics listing covers: the third node reports no usage.
MetricsCoverage == {Cluster \ {3}}

Concurrencies == {1, DefaultConcurrency}

OrderBys == { <<>>, <<"d", "i", "s", "k", "%", ":", "d", "e", "s", "c">> }

Range(f) == {f[x] : x \in DOMAIN f}

IndexOfName(nm) == CHOOSE i \in Cluster : NodeName(i) = nm

(***************************************************************************)
(* main: disk-usage fetcher and renderer                                   *)
(***************************************************************************)
\* Percentages are carried in hundredths of a percent: (used / cap) * 100.0
Percent(used, cap) == (used * 10000) \div cap

fetch_node_disk_usage(resp) ==
    IF resp.kind = "error" THEN Raise
    ELSE IF resp.fs = <<>> THEN Raise
    ELSE IF resp.fs[1].capacityBytes = 0 THEN Ret(0)
    ELSE Ret(Percent(resp.fs[1].usedBytes, resp.fs[1].capacityBytes))

\* usage_percentage > THRESHOLD_PERCENTAGE, on hundredths of a percent
is_colorization_needed(h) == h > THRESHOLD_PERCENTAGE * 100

\* int(round(x)) of a percentage in hundredths: to the nearest, ties to even
RoundHalfEven(h) ==
    LET w == h \div 100
        r == h % 100
    IN  IF r > 50 \/ (r = 50 /\ w % 2 = 1) THEN w + 1 ELSE w

NoneText == <<"<", "n", "o", "n", "e", ">">>

UpperChar(c) ==
    IF \E i \in 1..26 : LowerLetters[i] = c
    THEN UpperLetters[CHOOSE i \in 1..26 : LowerLetters[i] = c]
    ELSE c

Upper(s) == [i \in 1..Len(s) |-> UpperChar(s[i])]

\* The line print_node_metrics prints. cpu_percentage and memory_percentage are
\* the whole numbers of the "N%" strings it is handed; disk_usage is the float,
\* shown with two decimals; *_red says whether the field is wrapped in COLOR.
print_node_metrics(node_name, cpu_cores, cpu_percentage, memory_bytes, memory_percentage, disk_usage_h, label_values) ==
    [kind |-> "row", name |-> node_name,
     cpu_cores |-> cpu_cores,
     cpu_perc |-> cpu_percentage,
     cpu_red |-> is_colorization_needed(cpu_percentage * 100),
     mem_bytes |-> memory_bytes,
     mem_perc |-> memory_percentage,
     mem_red |-> is_colorization_needed(memory_percentage * 100),
     disk |-> disk_usage_h,
     disk_red |-> is_colorization_needed(disk_usage_h),
     label_values |-> label_values]

\* The body of main's "for r in rows" loop.
PrintedLine(r, labels) ==
    print_node_metrics(r.name, r.cpu_m, RoundHalfEven(r.cpu_perc), r.mem_bytes,
        RoundHalfEven(r.mem_perc), r.disk_perc,
        [i \in 1..Len(labels) |->
            IF labels[i] \in DOMAIN r.labels THEN r.labels[labels[i]] ELSE NoneText])

HeaderLine(labels) ==
    [kind |-> "header", label_cols |-> [i \in 1..Len(labels) |-> Upper(labels[i])]]

\* Mutant of OutAfterHeader: the header is not printed before connecting.
OutAfterHeader_NotYet(o, labels) == o

\* print(" ".join(header_parts)), which main does before it connects
OutAfterHeader(o, labels) == Append(o, HeaderLine(labels))

\* Mutant of MaxWorkers: the pool is sized by the node count alone.
MaxWorkers_NodeCount(concurrency, n) == IF n < 1 THEN 1 ELSE n

\* max(1, min(args.concurrency, len(node_names)))
MaxWorkers(concurrency, n) ==
    LET m == IF concurrency < n THEN concurrency ELSE n IN
    IF m < 1 THEN 1 ELSE m

\* Mutant of ResultOrZero: a failed fetch is recorded as a full disk.
ResultOrZero_Full(result) == IF result.raised THEN 10000 ELSE result.val

\* try: float(fut.result()) except Exception: 0.0
ResultOrZero(result) == IF result.raised THEN 0 ELSE result.val

\* disk_usage[n] = v on the insertion-ordered dict
DiskSet(d, n, v) ==
    IF \E i \in 1..Len(d) : d[i].name = n
    THEN [i \in 1..Len(d) |-> IF d[i].name = n THEN [name |-> n, val |-> v] ELSE d[i]]
    ELSE Append(d, [name |-> n, val |-> v])

\* disk_usage.get(name, 0.0)
DiskGet(d, n) ==
    IF \E i \in 1..Len(d) : d[i].name = n
    THEN d[CHOOSE i \in 1..Len(d) : d[i].name = n].val
    ELSE 0

\* Mutant of RowNames: the rows are built in the order the results came in.
RowNames_CompletionOrder(names, d) == [i \in 1..Len(d) |-> d[i].name]

\* for name in node_names: rows.append(...)
RowNames(names, d) == names

\* One row of main's table.
BuildRow(name) ==
    LET used_m == IF name \in DOMAIN usage THEN usage[name].cpu_m ELSE 0
        cap_m == IF capacity[name].cpu_m = 0 THEN 1 ELSE capacity[name].cpu_m
        mem_used == IF name \in DOMAIN usage THEN usage[name].mem_bytes ELSE 0
        mem_cap == IF capacity[name].mem_bytes = 0 THEN 1 ELSE capacity[name].mem_bytes
    IN  [name |-> name,
         cpu_m |-> used_m,
         cpu_perc |-> Percent(used_m, cap_m),
         mem_bytes |-> mem_used,
         mem_perc |-> Percent(mem_used, mem_cap),
         disk_perc |-> DiskGet(disk_usage, name),
         labels |-> labels_by_node[name]]

Running == {k \in 1..Len(futures) : futures[k].state = "running"}

pureVars == <<rows0, q, res, spec_str, parsed>>

(***************************************************************************)
(* Spec: one run of main                                                   *)
(***************************************************************************)
Init ==
    /\ pc = "start"
    /\ out = <<>>
    /\ args \in [concurrency : Concurrencies, order_by : OrderBys]
    /\ requested_labels = <<ZoneKey>>
    /\ node_names = <<>> /\ labels_by_node = <<>> /\ capacity = <<>> /\ usage = <<>>
    /\ futures = <<>> /\ disk_usage = <<>> /\ requests = <<>>
    /\ rows = <<>> /\ order_specs = <<>>
    /\ rows0 = Idle /\ q = Idle /\ res = Idle /\ spec_str = Idle /\ parsed = Idle

PrintHeader ==
    /\ pc = "start"
    /\ out' = OutAfterHeader(out, requested_labels)
    /\ pc' = "connect"
    /\ UNCHANGED <<args, requested_labels, node_names, labels_by_node, capacity,
                   usage, futures, disk_usage, requests, rows, order_specs, pureVars>>

\* --proxy-url was given: no proxy is started.
UseProxyUrl ==
    /\ pc = "connect"
    /\ pc' = "list_nodes"
    /\ UNCHANGED <<mainVars, requested_labels, rows, order_specs, pureVars>>

\* start_kubectl_proxy read the port the proxy serves on.
StartProxyOk ==
    /\ pc = "connect"
    /\ pc' = "list_nodes"
    /\ UNCHANGED <<mainVars, requested_labels, rows, order_specs, pureVars>>

\* start_kubectl_proxy saw no port within its five seconds: RuntimeError.
StartProxyFail ==
    /\ pc = "connect"
    /\ pc' = "failed_proxy"
    /\ UNCHANGED <<mainVars, requested_labels, rows, order_specs, pureVars>>

\* list_nodes answered; main keeps names, labels and parsed capacities.
ListNodesOk ==
    /\ pc = "list_nodes"
    /\ \E l \in Listings :
          LET items == [k \in 1..Len(l) |-> NodeItem(l[k])]
              names == [k \in 1..Len(l) |-> items[k].name]
              byName(nm) == items[CHOOSE k \in 1..Len(items) : items[k].name = nm]
          IN  IF items = <<>>
              THEN /\ pc' = "done"
                   /\ UNCHANGED <<node_names, labels_by_node, capacity, requests>>
              ELSE IF \E k \in 1..Len(items) :
                        \/ parse_cpu_to_millicores(items[k].cpu).raised
                        \/ parse_memory_to_bytes(items[k].memory).raised
              THEN /\ pc' = "failed_quantity"
                   /\ UNCHANGED <<node_names, labels_by_node, capacity, requests>>
              ELSE /\ pc' = "list_metrics"
                   /\ node_names' = names
                   /\ labels_by_node' = [nm \in Range(names) |-> byName(nm).labels]
                   /\ capacity' =
                         [nm \in Range(names) |->
                            [cpu_m |-> parse_cpu_to_millicores(byName(nm).cpu).val,
                             mem_bytes |-> parse_memory_to_bytes(byName(nm).memory).val]]
                   /\ requests' = [nm \in Range(names) |-> 0]
    /\ UNCHANGED <<out, args, requested_labels, usage, futures, disk_usage, rows,
                   order_specs, pureVars>>

\* list_nodes raised (connection refused, timeout, HTTP error status).
ListNodesFail ==
    /\ pc = "list_nodes"
    /\ pc' = "failed_list_nodes"
    /\ UNCHANGED <<mainVars, requested_labels, rows, order_specs, pureVars>>

\* list_node_metrics answered; only the selected nodes' usage is kept.
ListMetricsOk ==
    /\ pc = "list_metrics"
    /\ \E cov \in MetricsCoverage :
          LET kept == {i \in cov : NodeName(i) \in Range(node_names)} IN
          IF \E i \in kept :
                \/ parse_cpu_to_millicores(MetricsItem(i).cpu).raised
                \/ parse_memory_to_bytes(MetricsItem(i).memory).raised
          THEN pc' = "failed_quantity" /\ UNCHANGED usage
          ELSE /\ pc' = "fanout"
               /\ usage' =
                     [nm \in {NodeName(i) : i \in kept} |->
                        [cpu_m |-> parse_cpu_to_millicores(
                                       MetricsItem(IndexOfName(nm)).cpu).val,
                         mem_bytes |-> parse_memory_to_bytes(
                                       MetricsItem(IndexOfName(nm)).memory).val]]
    /\ UNCHANGED <<out, args, requested_labels, node_names, labels_by_node, capacity,
                   futures, disk_usage, requests, rows, order_specs, pureVars>>

ListMetricsFail ==
    /\ pc = "list_metrics"
    /\ pc' = "failed_metrics"
    /\ UNCHANGED <<mainVars, requested_labels, rows, order_specs, pureVars>>

\* pool.submit(fetch_node_disk_usage, ..., n) for the next node of node_names
Submit ==
    /\ pc = "fanout"
    /\ Len(futures) < Len(node_names)
    /\ futures' = Append(futures, [node |-> node_names[Len(futures) + 1],
                                   state |-> "pending", result |-> Ret(0)])
    /\ UNCHANGED <<pc, out, args, requested_labels, node_names, labels_by_node,
                   capacity, usage, disk_usage, requests, rows, order_specs, pureVars>>

\* A worker thread of the pool takes the oldest queued task and sends the
\* stats request; the pool runs at most max_workers threads.
WorkerStart(k) ==
    /\ pc = "fanout"
    /\ futures[k].state = "pending"
    /\ \A j \in 1..(k - 1) : futures[j].state # "pending"
    /\ Cardinality(Running) < MaxWorkers(args.concurrency, Len(node_names))
    /\ futures' = [futures EXCEPT ![k].state = "running"]
    /\ requests' = [requests EXCEPT ![futures[k].node] = @ + 1]
    /\ UNCHANGED <<pc, out, args, requested_labels, node_names, labels_by_node,
                   capacity, usage, disk_usage, rows, order_specs, pureVars>>

\* The request of task k comes back, or fails; the future holds the outcome.
FetchDone(k) ==
    /\ pc = "fanout"
    /\ futures[k].state = "running"
    /\ \E resp \in StatsResponses(IndexOfName(futures[k].node)) :
          futures' = [futures EXCEPT ![k].state = "done",
                                     ![k].result = fetch_node_disk_usage(resp)]
    /\ UNCHANGED <<pc, out, args, requested_labels, node_names, labels_by_node,
                   capacity, usage, disk_usage, requests, rows, order_specs, pureVars>>

\* One turn of "for fut in as_completed(futures)", entered after every submit.
Collect(k) ==
    /\ pc = "fanout"
    /\ Len(futures) = Len(node_names)
    /\ futures[k].state = "done"
    /\ futures' = [futures EXCEPT ![k].state = "collected"]
    /\ disk_usage' = DiskSet(disk_usage, futures[k].node, ResultOrZero(futures[k].result))
    /\ UNCHANGED <<pc, out, args, requested_labels, node_names, labels_by_node,
                   capacity, usage, requests, rows, order_specs, pureVars>>

\* as_completed is exhausted and the with block is left.
Join ==
    /\ pc = "fanout"
    /\ Len(futures) = Len(node_names)
    /\ \A k \in 1..Len(futures) : futures[k].state = "collected"
    /\ pc' = "assemble"
    /\ UNCHANGED <<mainVars, requested_labels, rows, order_specs, pureVars>>

AssembleRows ==
    /\ pc = "assemble"
    /\ rows' = LET names == RowNames(node_names, disk_usage) IN
               [i \in 1..Len(names) |-> BuildRow(names[i])]
    /\ pc' = "sort"
    /\ UNCHANGED <<mainVars, requested_labels, order_specs, pureVars>>

\* order_specs = parse_order_by(...); sort_rows_in_place(rows, order_specs)
ParseAndSort ==
    /\ pc = "sort"
    /\ LET p == parse_order_by(args.order_by, requested_labels) IN
       IF p.raised
       THEN pc' = "failed_order_by" /\ UNCHANGED <<rows, order_specs>>
       ELSE /\ order_specs' = p.val
            /\ rows' = sort_rows_in_place(rows, p.val)
            /\ pc' = IF rows = <<>> THEN "done" ELSE "print"
    /\ UNCHANGED <<mainVars, requested_labels, pureVars>>

\* The data rows printed so far (the header is the first line of out).
RowsPrinted == Len(out) - 1

PrintRow ==
    /\ pc = "print"
    /\ out' = Append(out, PrintedLine(rows[RowsPrinted + 1], requested_labels))
    /\ pc' = IF RowsPrinted + 1 = Len(rows) THEN "done" ELSE "print"
    /\ UNCHANGED <<args, requested_labels, node_names, labels_by_node, capacity,
                   usage, futures, disk_usage, requests, rows, order_specs, pureVars>>

Next ==
    \/ PrintHeader
    \/ UseProxyUrl
    \/ StartProxyOk
    \/ StartProxyFail
    \/ ListNodesOk
    \/ ListNodesFail
    \/ ListMetricsOk
    \/ ListMetricsFail
    \/ Submit
    \/ \E k \in 1..Len(futures) : WorkerStart(k)
    \/ \E k \in 1..Len(futures) : FetchDone(k)
    \/ \E k \in 1..Len(futures) : Collect(k)
    \/ Join
    \/ AssembleRows
    \/ ParseAndSort
    \/ PrintRow

Spec == Init /\ [][Next]_vars

(***************************************************************************)
(* Properties of the row sorter                                            *)
(***************************************************************************)
\* The order the directives ask for, first directive first: -1 when a comes
\* before b, 1 when after, 0 when they are equal on every key.
RECURSIVE LexCmp(_, _, _)
LexCmp(a, b, specs) ==
    IF specs = <<>> THEN 0
    ELSE LET d == Head(specs)
             ka == SortKey(a, d)
             kb == SortKey(b, d)
         IN  IF KeyLess(ka, kb) THEN (IF d.reverse THEN 1 ELSE -1)
             ELSE IF KeyLess(kb, ka) THEN (IF d.reverse THEN -1 ELSE 1)
             ELSE LexCmp(a, b, Tail(specs))

PosOf(rs, nm) == CHOOSE i \in 1..Len(rs) : rs[i].name = nm

\* C1: after sort_rows_in_place the rows are a permutation of the input,
\* ordered lexicographically by the directives (first directive primary, each
\* ascending or descending as it says), rows equal on all keys keep their
\* input order, and an empty spec leaves the order unchanged.
C1_SortedStablePermutation ==
    pc = "sorted" =>
        /\ Len(rows) = Len(rows0)
        /\ \A i \in 1..Len(rows0) : rows[PosOf(rows, rows0[i].name)] = rows0[i]
        /\ order_specs = <<>> => rows = rows0
        /\ \A i, j \in 1..Len(rows) : i < j =>
              LET c == LexCmp(rows[i], rows[j], order_specs) IN
              /\ c <= 0
              /\ c = 0 => PosOf(rows0, rows[i].name) < PosOf(rows0, rows[j].name)

\* Two directives, the first descending, the sort moved rows, one pair of rows
\* is equal on both keys and one pair is decided by the second key only.
C1_Witness ==
    /\ pc = "sorted"
    /\ Len(order_specs) = 2
    /\ order_specs[1].reverse
    /\ order_specs[1].key # order_specs[2].key
    /\ rows # rows0
    /\ \E i, j \in 1..Len(rows) : i < j /\ LexCmp(rows[i], rows[j], order_specs) = 0
    /\ \E i, j \in 1..Len(rows) :
          /\ LexCmp(rows[i], rows[j], <<order_specs[1]>>) = 0
          /\ LexCmp(rows[i], rows[j], order_specs) # 0

\* C9: sorting by a single numeric key places every row without a value for
\* that key after all rows that have one, ascending and descending alike.
C9_MissingAfterPresent ==
    (pc = "sorted" /\ Len(order_specs) = 1 /\ order_specs[1].key # "label") =>
        \A i, j \in 1..Len(rows) :
            (order_specs[1].key \notin DOMAIN rows[i]
                /\ order_specs[1].key \in DOMAIN rows[j]) => i > j

(***************************************************************************)
(* Properties of the unit converters                                       *)
(***************************************************************************)
\* A quantity: a float literal followed by at most one recognised suffix.
IsQuantity(s, suffixes) ==
    LET t == Strip(s) IN
    \E suf \in suffixes \cup {<<>>} :
        EndsWith(t, suf) /\ IsFloatLiteral(SubSeq(t, 1, Len(t) - Len(suf)))

MemorySuffixes ==
    {BIN[i].suf : i \in 1..Len(BIN)}
        \cup {<<c>> : c \in {"n", "u", "m", "k", "K", "M", "G", "T", "P", "E"}}

CpuSuffixes == {<<"m">>, <<"n">>}

\* C2: both converters are total: for every input string they return an
\* integer, never raise, and return 0 when the input is not a quantity.
C2_TotalZeroOnBadInput ==
    /\ pc = "memory_parsed" =>
          ~res.raised /\ (~IsQuantity(q, MemorySuffixes) => res.val = 0)
    /\ pc = "cpu_parsed" =>
          ~res.raised /\ (~IsQuantity(q, CpuSuffixes) => res.val = 0)

(***************************************************************************)
(* Properties of the order-by parser                                       *)
(***************************************************************************)
\* The table's aliases as declared, top to bottom.
DeclAlias(i) == Norm(BuiltinDecl[i][1])

DeclRange == 1..Len(BuiltinDecl)

IsExactAlias(ncol) == \E i \in DeclRange : DeclAlias(i) = ncol

\* The value a declared alias ends up with (a later duplicate overwrites).
AliasKey(alias) == BuiltinDecl[Max({i \in DeclRange : DeclAlias(i) = alias})][2]

PrefixRelated(a, b) == StartsWith(a, b) \/ StartsWith(b, a)

RelatedDecls(ncol) == {i \in DeclRange : PrefixRelated(DeclAlias(i), ncol)}

MatchingLabels(col, labels) ==
    {i \in 1..Len(labels) : Norm(labels[i]) = Norm(col) \/ labels[i] = col}

\* The non-blank items of an order-by string, each with its column name and
\* whether it asks for descending order.
RECURSIVE NonBlank(_)
NonBlank(raws) ==
    IF raws = <<>> THEN <<>>
    ELSE IF Strip(Head(raws)) = <<>> THEN NonBlank(Tail(raws))
    ELSE <<Strip(Head(raws))>> \o NonBlank(Tail(raws))

ItemsOf(spec) ==
    LET its == IF spec = <<>> THEN <<>> ELSE NonBlank(Split(spec, <<>>)) IN
    [i \in 1..Len(its) |->
        [col |-> Strip(MatchItem(its[i]).col),
         desc |-> MatchItem(its[i]).direction = "desc"]]

Resolvable(col, labels) ==
    \/ IsExactAlias(Norm(col))
    \/ MatchingLabels(col, labels) # {}
    \/ RelatedDecls(Norm(col)) # {}

\* Directive d is one that item it may give rise to.
Relates(d, it, labels) ==
    /\ d.reverse = it.desc
    /\ \/ d.key = "label"
          /\ \E i \in MatchingLabels(it.col, labels) : labels[i] = d.label_key
       \/ d.key # "label"
          /\ \E i \in DeclRange :
                /\ AliasKey(DeclAlias(i)) = d.key
                /\ DeclAlias(i) = Norm(it.col) \/ i \in RelatedDecls(Norm(it.col))

\* C3: parse_order_by never raises, emits no directive for an item whose
\* column resolves to nothing (one directive fewer per such item), and emits
\* the others in the order of their items.
C3_NoRaiseDropsUnresolvable ==
    pc = "parsed" =>
        LET its == ItemsOf(spec_str)
            kept == SelectSeq(its, LAMBDA it : Resolvable(it.col, requested_labels))
        IN  /\ ~parsed.raised
            /\ Len(parsed.val) = Len(kept)
            /\ \A k \in 1..Len(kept) : Relates(parsed.val[k], kept[k], requested_labels)

\* The directive the stated priority gives one item: (a) the exact alias,
\* (b) the first matching requested label, (c) the earliest declared alias
\* related by prefix; none otherwise.
ExpectedDirective(it, labels) ==
    LET ncol == Norm(it.col) IN
    IF IsExactAlias(ncol)
    THEN <<[key |-> AliasKey(ncol), reverse |-> it.desc, label_key |-> <<>>]>>
    ELSE IF MatchingLabels(it.col, labels) # {}
    THEN <<[key |-> "label", reverse |-> it.desc,
            label_key |-> labels[Min(MatchingLabels(it.col, labels))]]>>
    ELSE IF RelatedDecls(ncol) # {}
    THEN <<[key |-> AliasKey(DeclAlias(Min(RelatedDecls(ncol)))), reverse |-> it.desc,
            label_key |-> <<>>]>>
    ELSE <<>>

RECURSIVE ExpectedOrders(_, _)
ExpectedOrders(its, labels) ==
    IF its = <<>> THEN <<>>
    ELSE ExpectedDirective(Head(its), labels) \o ExpectedOrders(Tail(its), labels)

\* C8: each column name is resolved by (a) exact builtin alias, then (b)
\* requested label, then (c) the earliest declared prefix-related alias; so a
\* label whose normalized key is a builtin alias is never a label sort key.
C8_ResolutionPriority ==
    (pc = "parsed" /\ ~parsed.raised) =>
        /\ parsed.val = ExpectedOrders(ItemsOf(spec_str), requested_labels)
        /\ \A k \in 1..Len(parsed.val) :
              parsed.val[k].key = "label" => ~IsExactAlias(Norm(parsed.val[k].label_key))

\* Two items were parsed with a label whose key is a builtin alias requested:
\* the first was resolved to a label although a builtin alias is related to it
\* by prefix, the second by prefix with several related aliases to pick from.
C8_Witness ==
    /\ pc = "parsed" /\ ~parsed.raised
    /\ \E i \in 1..Len(requested_labels) : IsExactAlias(Norm(requested_labels[i]))
    /\ Len(ItemsOf(spec_str)) = 2 /\ Len(parsed.val) = 2
    /\ parsed.val[1].key = "label"
    /\ RelatedDecls(Norm(ItemsOf(spec_str)[1].col)) # {}
    /\ parsed.val[2].key # "label"
    /\ ~IsExactAlias(Norm(ItemsOf(spec_str)[2].col))
    /\ Cardinality(RelatedDecls(Norm(ItemsOf(spec_str)[2].col))) > 1

(***************************************************************************)
(* Properties of a run of main                                             *)
(***************************************************************************)
\* The data rows printed so far, top to bottom.
Printed == SelectSeq(out, LAMBDA ln : ln.kind = "row")

Failed == pc \in {"failed_proxy", "failed_list_nodes", "failed_metrics",
                  "failed_quantity", "failed_order_by"}

Joined == pc \in {"assemble", "sort", "print", "done"} /\ node_names # <<>>

FutureOf(nm) == futures[CHOOSE k \in 1..Len(futures) : futures[k].node = nm]

\* What the node's own stats request came to: its percentage, or 0 on failure.
OwnDisk(nm) ==
    IF FutureOf(nm).result.raised THEN 0 ELSE FutureOf(nm).result.val

\* The row of a node as its listing entry, usage and own fetch outcome give it.
NodeRow(nm) == [BuildRow(nm) EXCEPT !.disk_perc = OwnDisk(nm)]

ListingPos(nm) == CHOOSE i \in 1..Len(node_names) : node_names[i] = nm

\* C4: no data row is printed before every node's fetch has completed, and
\* the printed sequence is the one the listing order and the parsed order spec
\* determine (ordered by the directives, ties in listing order), whatever the
\* order in which the fetches completed.
C4_JoinBeforeRowsOrderFromListing ==
    /\ Printed # <<>> =>
          /\ Len(futures) = Len(node_names)
          /\ \A k \in 1..Len(futures) : futures[k].state = "collected"
    /\ (pc = "done" /\ node_names # <<>>) =>
          /\ Len(Printed) = Len(node_names)
          /\ \A i \in 1..Len(node_names) :
                \E j \in 1..Len(Printed) : Printed[j].name = node_names[i]
          /\ order_specs = parse_order_by(args.order_by, requested_labels).val
          /\ \A i, j \in 1..Len(Printed) : i < j =>
                LET c == LexCmp(NodeRow(Printed[i].name), NodeRow(Printed[j].name),
                                order_specs)
                IN  /\ c <= 0
                    /\ c = 0 => ListingPos(Printed[i].name) < ListingPos(Printed[j].name)

\* Three nodes were printed after their fetches completed in an order that is
\* neither the listing order nor the printed order, one of them having failed.
C4_Witness ==
    /\ pc = "done"
    /\ Len(node_names) = 3
    /\ [i \in 1..Len(disk_usage) |-> disk_usage[i].name] # node_names
    /\ [i \in 1..Len(disk_usage) |-> disk_usage[i].name]
          # [i \in 1..Len(Printed) |-> Printed[i].name]
    /\ \E k \in 1..Len(futures) : futures[k].result.raised
    /\ \E k \in 1..Len(futures) : ~futures[k].result.raised

\* C5: whichever fetches fail, the run is not aborted and prints one row per
\* listed node; a failed node's row shows 0.00% without highlighting, no fetch
\* is retried, and every other row shows the percentage of its own response.
C5_FailedFetchShowsZero ==
    /\ Failed => \A nm \in DOMAIN requests : requests[nm] = 0
    /\ \A nm \in DOMAIN requests : requests[nm] <= 1
    /\ (pc = "done" /\ node_names # <<>>) =>
          /\ Len(Printed) = Len(node_names)
          /\ \A i \in 1..Len(node_names) :
                LET nm == node_names[i]
                    at == {j \in 1..Len(Printed) : Printed[j].name = nm}
                IN  /\ Cardinality(at) = 1
                    /\ requests[nm] = 1
                    /\ \A j \in at :
                          IF FutureOf(nm).result.raised
                          THEN Printed[j].disk = 0 /\ ~Printed[j].disk_red
                          ELSE Printed[j].disk = FutureOf(nm).result.val

\* A finished run in which one node's fetch failed and another's row shows a
\* highlighted, non-zero disk usage.
C5_Witness ==
    /\ pc = "done"
    /\ Len(node_names) >= 2
    /\ \E j \in 1..Len(Printed) :
          FutureOf(Printed[j].name).result.raised /\ Printed[j].disk = 0
    /\ \E j \in 1..Len(Printed) :
          ~FutureOf(Printed[j].name).result.raised /\ Printed[j].disk_red

\* C6 as stated: when the proxy cannot be started or the node listing cannot be
\* reached, nothing has been printed, neither header nor data row.
C6_AbortBeforeAnyOutput ==
    pc \in {"failed_proxy", "failed_list_nodes"} => out = <<>>

\* C6 as amended: when the proxy cannot be started or the node listing cannot
\* be reached, no data row has been printed; the header row, which main prints
\* before it connects, is the whole output.
C6_AbortBeforeAnyDataRow ==
    pc \in {"failed_proxy", "failed_list_nodes"} =>
        out = <<HeaderLine(requested_labels)>>

\* The node listing failed after a proxy was reached.
C6_Witness == pc = "failed_list_nodes" /\ Len(out) = 1

\* C7: in every printed row each of the CPU%, MEMORY% and DISK USAGE% fields
\* is highlighted exactly when the row's own cpu_perc, mem_perc, disk_perc
\* exceeds 80.
C7_HighlightIffValueAbove80 ==
    \A i \in 1..Len(Printed) :
        LET r == rows[CHOOSE k \in 1..Len(rows) : rows[k].name = Printed[i].name] IN
        /\ Printed[i].cpu_red <=> r.cpu_perc > THRESHOLD_PERCENTAGE * 100
        /\ Printed[i].mem_red <=> r.mem_perc > THRESHOLD_PERCENTAGE * 100
        /\ Printed[i].disk_red <=> r.disk_perc > THRESHOLD_PERCENTAGE * 100

\* C10: one stats request per listed node (none twice, none skipped), never
\* more requests in flight than max(1, min(concurrency, node count)), and after
\* the join an entry in the mapping for every listed node.
C10_OneRequestPerNodeBoundedPool ==
    /\ \A nm \in DOMAIN requests : requests[nm] <= 1
    /\ Cardinality(Running) <= Max({1, Min({args.concurrency, Len(node_names)})})
    /\ Joined =>
          \A i \in 1..Len(node_names) :
              /\ requests[node_names[i]] = 1
              /\ Cardinality({k \in 1..Len(disk_usage) :
                                 disk_usage[k].name = node_names[i]}) = 1

\* With --concurrency 1 and three nodes: one request in flight, one task
\* still queued behind it, one already done.
C10_Witness ==
    /\ pc = "fanout"
    /\ args.concurrency = 1
    /\ Len(futures) = 3
    /\ Cardinality(Running) = 1
    /\ \E k \in 1..Len(futures) : futures[k].state = "pending"
    /\ \E k \in 1..Len(futures) : futures[k].state = "done"

====
